---- MODULE Spec2Model ----
(***************************************************************************)
(* Model of the calculator example: client.py (the module body, lines 8 to *)
(* 21) run by several client processes against the Calculator service at   *)
(* localhost:50051.  The client is translated from src/client.py.  The     *)
(* service (servicer, generated stubs) belongs to the repository but is    *)
(* not among the sources; it is modelled from the specification (sections  *)
(* 4.1, 5 and 8) and every such definition is marked "spec" below.         *)
(*                                                                         *)
(* client.py line 19 calls stub.SquareRoot(number) with no timeout         *)
(* argument, so the call carries no deadline: the model has no deadline    *)
(* timer and no step that ends a call with DeadlineExceeded.               *)
(***************************************************************************)
EXTENDS Integers, Sequences, FiniteSets, TLC

\* ---------------------------------------------------------------- bounds
NumClients == 3

Clients == 1..NumClients

\* ------------------------------------------------------------- constants
\* client.py:16  number = calculator_pb2.Number(value=10)
SampleValue == 10

\* Request payloads.  client.py sends SampleValue; -4 stands for the same
\* script run with another literal on line 16, so that the service is
\* driven both inside and outside its domain.
Values == {-4, SampleValue}

\* (spec) fixed-point scale standing for the floating-point tolerance:
\* a result r denotes r / Scale.
Scale == 1000

\* ---------------------------------------------------------------- values
None == [kind |-> "None"]

\* calculator_pb2.Number(value=v)
Number(v) == [kind |-> "Number", value |-> v]

ErrorKinds == {"InvalidArgument", "Unavailable", "DeadlineExceeded"}

VARIABLES
    listening,   \* (spec) the service accepts connections at localhost:50051
    pc,          \* position of each client in the module body of client.py
    number,      \* client.py:16  the request message
    response,    \* client.py:19  the value returned by stub.SquareRoot
    error,       \* the error raised out of stub.SquareRoot (uncaught)
    output,      \* client.py:21  what print wrote
    sent,        \* number of request messages each client put on the wire
    received,    \* response messages delivered to each client, in order
    requests,    \* requests on the wire, not yet accepted by the service
    handlers,    \* (spec) calls the service is executing, one thread each
    responses,   \* responses on the wire, not yet delivered
    log,         \* history: calls the service executed, in completion order
    concurrent   \* history: clients whose call overlapped another call

vars == <<listening, pc, number, response, error, output, sent, received,
          requests, handlers, responses, log, concurrent>>

clientVars == <<pc, number, response, error, output, sent, received>>

\* ------------------------------------------------- service (spec, 4.1)
\* (spec) the domain of the square-root operation
InDomain(x) == x >= 0

RECURSIVE SqrtSearch(_, _, _)
SqrtSearch(n, lo, hi) ==
    IF lo = hi THEN lo
    ELSE LET mid == (lo + hi + 1) \div 2
         IN  IF mid * mid <= n THEN SqrtSearch(n, mid, hi)
                               ELSE SqrtSearch(n, lo, mid - 1)

\* (spec) square root of x in units of 1/Scale
Sqrt(x) == SqrtSearch(x * Scale * Scale, 0, (x + 1) * Scale)

\* (spec) Compute with hidden state: the result drifts with the number of
\* calls already served.
Compute_stateful(x) ==
    IF InDomain(x) THEN [status |-> "OK", result |-> Number(Sqrt(x) + Len(log))]
                   ELSE [status |-> "InvalidArgument", result |-> None]

\* (spec) Compute(NumericRequest) -> NumericResponse, section 4.1
Compute(x) ==
    IF InDomain(x) THEN [status |-> "OK", result |-> Number(Sqrt(x))]
                   ELSE [status |-> "InvalidArgument", result |-> None]

\* (spec) the response a handler sends: addressed to the caller of the call
\* it executes, carrying Compute of that call's input.
Reply(h) ==
    [client |-> h.client,
     status |-> Compute(h.value).status,
     result |-> Compute(h.value).result]


\* ------------------------------------------------------------------ Init
Init ==
    /\ listening \in BOOLEAN
    /\ pc = [c \in Clients |-> "start"]
    /\ number = [c \in Clients |-> None]
    /\ response = [c \in Clients |-> None]
    /\ error = [c \in Clients |-> "None"]
    /\ output = [c \in Clients |-> None]
    /\ sent = [c \in Clients |-> 0]
    /\ received = [c \in Clients |-> <<>>]
    /\ requests = {}
    /\ handlers = {}
    /\ responses = {}
    /\ log = <<>>
    /\ concurrent = {}

\* --------------------------------------------------- client (client.py)
\* client.py:9  channel = grpc.insecure_channel('localhost:50051')
\* The channel is created lazily: nothing is connected or sent.
OpenChannel(c) ==
    /\ pc[c] = "start"
    /\ pc' = [pc EXCEPT ![c] = "channel"]
    /\ UNCHANGED <<listening, number, response, error, output, sent, received,
                   requests, handlers, responses, log, concurrent>>

\* client.py:13  stub = calculator_pb2_grpc.CalculatorStub(channel)
CreateStub(c) ==
    /\ pc[c] = "channel"
    /\ pc' = [pc EXCEPT ![c] = "stub"]
    /\ UNCHANGED <<listening, number, response, error, output, sent, received,
                   requests, handlers, responses, log, concurrent>>

\* client.py:16  number = calculator_pb2.Number(value=...)
CreateRequest(c) ==
    /\ pc[c] = "stub"
    /\ \E v \in Values : number' = [number EXCEPT ![c] = Number(v)]
    /\ pc' = [pc EXCEPT ![c] = "request"]
    /\ UNCHANGED <<listening, response, error, output, sent, received,
                   requests, handlers, responses, log, concurrent>>

\* The clients whose call is on the wire or being executed.
InFlight == {d \in Clients : pc[d] = "calling"}

\* client.py:19  stub.SquareRoot(number), first half: the endpoint is
\* reachable, the request goes on the wire and the client blocks.
SquareRootSend(c) ==
    /\ pc[c] = "request"
    /\ listening
    /\ requests' = requests \cup {[client |-> c, value |-> number[c].value]}
    /\ sent' = [sent EXCEPT ![c] = @ + 1]
    /\ pc' = [pc EXCEPT ![c] = "calling"]
    /\ concurrent' = IF InFlight = {} THEN concurrent
                     ELSE concurrent \cup InFlight \cup {c}
    /\ UNCHANGED <<listening, number, response, error, output, received,
                   handlers, responses, log>>

\* As SquareRootUnavailable, but the failure is swallowed and replaced by a
\* default result.
SquareRootUnavailable_default(c) ==
    /\ pc[c] = "request"
    /\ ~listening
    /\ response' = [response EXCEPT ![c] = Number(0)]
    /\ pc' = [pc EXCEPT ![c] = "returned"]
    /\ UNCHANGED <<listening, number, error, output, sent, received,
                   requests, handlers, responses, log, concurrent>>

\* client.py:19  stub.SquareRoot(number) when nothing listens at the
\* address: the call raises an RpcError with code Unavailable, which the
\* script does not catch.
SquareRootUnavailable(c) ==
    /\ pc[c] = "request"
    /\ ~listening
    /\ error' = [error EXCEPT ![c] = "Unavailable"]
    /\ pc' = [pc EXCEPT ![c] = "raised"]
    /\ UNCHANGED <<listening, number, response, output, sent, received,
                   requests, handlers, responses, log, concurrent>>

\* A client that takes whatever response is on the wire.
Matches_any(c, m) == TRUE

\* A client that waits for the response of the wrong call.
Matches_wrong(c, m) == m.client = c + 1

\* The response m on the wire belongs to the call of client c.
Matches(c, m) == m.client = c

\* As SquareRootReturn, but the delivered response is left on the wire.
SquareRootReturn_keep(c) ==
    /\ pc[c] = "calling"
    /\ \E m \in responses :
          /\ Matches(c, m)
          /\ m.status = "OK"
          /\ response' = [response EXCEPT ![c] = m.result]
          /\ received' = [received EXCEPT ![c] = Append(@, m)]
    /\ pc' = [pc EXCEPT ![c] = "returned"]
    /\ UNCHANGED <<listening, number, error, output, sent,
                   requests, handlers, responses, log, concurrent>>

\* client.py:19  stub.SquareRoot(number), second half with status OK: the
\* call returns the decoded response message.
SquareRootReturn(c) ==
    /\ pc[c] = "calling"
    /\ \E m \in responses :
          /\ Matches(c, m)
          /\ m.status = "OK"
          /\ response' = [response EXCEPT ![c] = m.result]
          /\ received' = [received EXCEPT ![c] = Append(@, m)]
          /\ responses' = responses \ {m}
    /\ pc' = [pc EXCEPT ![c] = "returned"]
    /\ UNCHANGED <<listening, number, error, output, sent,
                   requests, handlers, log, concurrent>>

\* As SquareRootRaise, but the failure is silent: no error is recorded.
SquareRootRaise_silent(c) ==
    /\ pc[c] = "calling"
    /\ \E m \in responses :
          /\ Matches(c, m)
          /\ m.status # "OK"
          /\ received' = [received EXCEPT ![c] = Append(@, m)]
          /\ responses' = responses \ {m}
    /\ pc' = [pc EXCEPT ![c] = "raised"]
    /\ UNCHANGED <<listening, number, response, error, output, sent,
                   requests, handlers, log, concurrent>>

\* As SquareRootRaise, but the error is swallowed and a default result is
\* returned to the script.
SquareRootRaise_default(c) ==
    /\ pc[c] = "calling"
    /\ \E m \in responses :
          /\ Matches(c, m)
          /\ m.status # "OK"
          /\ received' = [received EXCEPT ![c] = Append(@, m)]
          /\ responses' = responses \ {m}
    /\ response' = [response EXCEPT ![c] = Number(0)]
    /\ pc' = [pc EXCEPT ![c] = "returned"]
    /\ UNCHANGED <<listening, number, error, output, sent,
                   requests, handlers, log, concurrent>>

\* As SquareRootRaise, but the client goes back and sends the request again.
SquareRootRaise_retry(c) ==
    /\ pc[c] = "calling"
    /\ \E m \in responses :
          /\ Matches(c, m)
          /\ m.status # "OK"
          /\ received' = [received EXCEPT ![c] = Append(@, m)]
          /\ responses' = responses \ {m}
    /\ error' = [error EXCEPT ![c] = "None"]
    /\ pc' = [pc EXCEPT ![c] = "request"]
    /\ UNCHANGED <<listening, number, response, output, sent,
                   requests, handlers, log, concurrent>>

\* client.py:19  stub.SquareRoot(number), second half with an error
\* status: the call raises an RpcError carrying that status; the script
\* has no handler, so the error leaves the script and line 21 never runs.
SquareRootRaise(c) ==
    /\ pc[c] = "calling"
    /\ \E m \in responses :
          /\ Matches(c, m)
          /\ m.status # "OK"
          /\ error' = [error EXCEPT ![c] = m.status]
          /\ received' = [received EXCEPT ![c] = Append(@, m)]
          /\ responses' = responses \ {m}
    /\ pc' = [pc EXCEPT ![c] = "raised"]
    /\ UNCHANGED <<listening, number, response, output, sent,
                   requests, handlers, log, concurrent>>

\* print that writes the request's value instead of the response's.
PrintValue_request(c) ==
    /\ pc[c] = "returned"
    /\ output' = [output EXCEPT ![c] = Number(number[c].value)]
    /\ pc' = [pc EXCEPT ![c] = "printed"]
    /\ UNCHANGED <<listening, number, response, error, sent, received,
                   requests, handlers, responses, log, concurrent>>

\* client.py:21  print(response.value)
PrintValue(c) ==
    /\ pc[c] = "returned"
    /\ output' = [output EXCEPT ![c] = Number(response[c].value)]
    /\ pc' = [pc EXCEPT ![c] = "printed"]
    /\ UNCHANGED <<listening, number, response, error, sent, received,
                   requests, handlers, responses, log, concurrent>>

\* ------------------------------------------------- service (spec, 4.1, 5)
\* (spec) the service accepts a request and starts a handler thread for it
Accept(r) ==
    /\ r \in requests
    /\ requests' = requests \ {r}
    /\ handlers' = handlers \cup {r}
    /\ UNCHANGED <<listening, log, concurrent, responses>>
    /\ UNCHANGED clientVars

\* (spec) a handler computes, sends its one response and ends
Complete(h) ==
    /\ h \in handlers
    /\ handlers' = handlers \ {h}
    /\ responses' = responses \cup {Reply(h)}
    /\ log' = Append(log, [client |-> h.client, input |-> h.value,
                           status |-> Reply(h).status, result |-> Reply(h).result])
    /\ UNCHANGED <<listening, concurrent, requests>>
    /\ UNCHANGED clientVars

\* ------------------------------------------------------------------ Next
ClientStep(c) ==
    \/ OpenChannel(c)
    \/ CreateStub(c)
    \/ CreateRequest(c)
    \/ SquareRootSend(c)
    \/ SquareRootUnavailable(c)
    \/ SquareRootReturn(c)
    \/ SquareRootRaise(c)
    \/ PrintValue(c)

ServiceStep ==
    \/ \E r \in requests : Accept(r)
    \/ \E h \in handlers : Complete(h)

Next ==
    \/ \E c \in Clients : ClientStep(c)
    \/ ServiceStep

Spec == Init /\ [][Next]_vars

\* The client script is a running process and the transport delivers what
\* is on the wire, so every enabled client step is eventually taken.  The
\* service gets no fairness: it may accept a request and never answer.
FairSpec == Spec /\ \A c \in Clients : WF_vars(ClientStep(c))


\* ================================================================ claims
\* The call of client c has ended: print ran, or the error left the script.
Done(c) == pc[c] \in {"printed", "raised"}

\* The messages of client c's call that are still somewhere in the system.
Pending(c) ==
    Cardinality({r \in requests : r.client = c})
      + Cardinality({h \in handlers : h.client = c})
      + Cardinality({m \in responses : m.client = c})

\* The positions of log at which the service executed a call of client c.
Executions(c) == {i \in DOMAIN log : log[i].client = c}

\* r is the square root of x within the tolerance 1/Scale.
IsRoot(r, x) ==
    /\ r >= 0
    /\ r * r <= x * Scale * Scale
    /\ x * Scale * Scale < (r + 1) * (r + 1)

\* C1: every call that has ended has exactly one outcome: either a numeric
\* result was returned and printed and no error was raised, or one error of
\* the three kinds was raised and there is no result at all, not even a
\* returned but unprinted one.
C1_ExactlyOneOutcome ==
    \A c \in Clients :
        Done(c) =>
            \/ /\ pc[c] = "printed"
               /\ error[c] = "None"
               /\ response[c].kind = "Number"
               /\ output[c] = response[c]
            \/ /\ pc[c] = "raised"
               /\ error[c] \in ErrorKinds
               /\ response[c] = None
               /\ output[c] = None

\* One call has ended with a result and another with an error.
C1_Witness ==
    \E c, d \in Clients :
        /\ pc[c] = "printed" /\ output[c].kind = "Number"
        /\ pc[d] = "raised" /\ error[d] = "InvalidArgument"

\* C3: each client is delivered at most one response, only after it sent
\* its request, addressed to it and produced by exactly one execution of
\* its own request; a request never has more than one message (request,
\* handler, response, delivered response) standing for it.
C3_OneShotPairing ==
    \A c \in Clients :
        /\ Len(received[c]) <= sent[c]
        /\ Len(received[c]) <= 1
        /\ Pending(c) + Len(received[c]) <= sent[c]
        /\ \A i \in DOMAIN received[c] :
              /\ received[c][i].client = c
              /\ Cardinality(Executions(c)) = 1
              /\ \A j \in Executions(c) : log[j].input = number[c].value

\* A client has sent one request and been delivered its one response.
C3_Witness ==
    \E c \in Clients :
        /\ sent[c] = 1
        /\ Len(received[c]) = 1
        /\ pc[c] = "printed"

\* C4: a call whose input is outside the domain is executed by the service
\* with status InvalidArgument and no result; its client never holds a
\* response or prints a value, and once the service has answered, the
\* client has raised InvalidArgument.
C4_InvalidArgument ==
    /\ \A i \in DOMAIN log :
          ~InDomain(log[i].input) =>
              log[i].status = "InvalidArgument" /\ log[i].result = None
    /\ \A c \in Clients :
          (number[c] # None /\ ~InDomain(number[c].value)) =>
              /\ response[c] = None
              /\ output[c] = None
              /\ pc[c] \notin {"returned", "printed"}
              /\ received[c] # <<>> =>
                    pc[c] = "raised" /\ error[c] = "InvalidArgument"

\* The request -4 was answered and its client raised InvalidArgument.
C4_Witness ==
    \E c \in Clients :
        /\ number[c] = Number(-4)
        /\ received[c] # <<>>
        /\ pc[c] = "raised"
        /\ error[c] = "InvalidArgument"

\* The error kind that occurred in the call of client c.
Occurred(c) ==
    IF received[c] = <<>> THEN "Unavailable"
    ELSE received[c][Len(received[c])].status

\* C5: when nothing listens at the endpoint, a client that has made its
\* call has raised Unavailable and has no result; and whenever a client
\* has raised, the error it surfaces is the kind that occurred, with no
\* response or output in its place.
C5_UnavailableSurfaced ==
    \A c \in Clients :
        /\ (~listening /\ pc[c] \in {"calling", "returned", "printed", "raised"}) =>
              /\ pc[c] = "raised"
              /\ error[c] = "Unavailable"
        /\ pc[c] = "raised" =>
              /\ error[c] = Occurred(c)
              /\ response[c] = None
              /\ output[c] = None
        /\ error[c] # "None" => pc[c] = "raised"

\* The endpoint is unreachable and every client has raised Unavailable.
C5_Witness ==
    /\ ~listening
    /\ \A c \in Clients : pc[c] = "raised" /\ error[c] = "Unavailable"

\* C6: a client sends at most one request, the service executes each
\* client's request at most once, and a client that has failed has sent
\* nothing beyond its single attempt: none if the endpoint was
\* unreachable, one otherwise, with nothing of it left in the system.
C6_SingleAttempt ==
    \A c \in Clients :
        /\ sent[c] <= 1
        /\ Cardinality(Executions(c)) <= 1
        /\ pc[c] = "raised" =>
              /\ sent[c] = Len(received[c])
              /\ Pending(c) = 0

\* A client failed with InvalidArgument after its single request.
C6_Witness ==
    \E c \in Clients :
        /\ pc[c] = "raised"
        /\ error[c] = "InvalidArgument"
        /\ sent[c] = 1
        /\ Pending(c) = 0

\* C7: every call the service executed on an input in the domain was
\* answered OK with the square root of that input, and what a client has
\* printed is the square root of the input it sent, which is the value of
\* the response delivered to it.
C7_SquareRoot ==
    /\ \A i \in DOMAIN log :
          InDomain(log[i].input) =>
              /\ log[i].status = "OK"
              /\ log[i].result.kind = "Number"
              /\ IsRoot(log[i].result.value, log[i].input)
    /\ \A c \in Clients :
          pc[c] = "printed" =>
              /\ InDomain(number[c].value)
              /\ output[c].kind = "Number"
              /\ IsRoot(output[c].value, number[c].value)
              /\ output[c] = received[c][1].result

\* The request 10 was answered and its client printed 3.162.
C7_Witness ==
    \E c \in Clients :
        /\ number[c] = Number(SampleValue)
        /\ pc[c] = "printed"
        /\ output[c] = Number(3162)

Outcome(c) ==
    [status |-> IF error[c] = "None" THEN "OK" ELSE error[c],
     result |-> response[c]]

\* The outcome the call of client c has when it runs alone.
Alone(c) ==
    IF listening THEN Compute(number[c].value)
    ELSE [status |-> "Unavailable", result |-> None]

\* C9: under every interleaving, a client whose call has returned or
\* raised holds the outcome of its own request, the one the call has when
\* it runs alone, also when other calls were in flight at the same time.
C9_Independent ==
    \A c \in Clients :
        pc[c] \in {"returned", "printed", "raised"} => Outcome(c) = Alone(c)

\* Two calls with different inputs overlapped and both have ended.
C9_Witness ==
    \E c, d \in Clients :
        /\ c \in concurrent /\ d \in concurrent
        /\ number[c] # number[d]
        /\ pc[c] = "printed"
        /\ Done(d)
        /\ Len(log) >= 2 /\ log[1].client = d /\ log[2].client = c
        /\ received[d] # <<>>

\* The service's response to client c is on the wire.
ResponseOnWire(c) == \E m \in responses : m.client = c

\* C2 as stated: every client call eventually ends with a result or an
\* error, whatever the service does.
C2_NeverBlocksForever == \A c \in Clients : <>Done(c)

\* The call of client c is blocked and no response to it is on the wire.
Blocked(c) == pc[c] = "calling" /\ ~ResponseOnWire(c)

\* C2 amended: the call carries no deadline and never ends with
\* DeadlineExceeded; from some point on, every call has ended with a
\* result or an error, or is blocked on a service that has not answered.
C2_EndsUnlessUnanswered ==
    /\ [](\A c \in Clients : error[c] # "DeadlineExceeded")
    /\ <>[](\A c \in Clients : Done(c) \/ Blocked(c))

\* The service has accepted a client's request and has not answered: the
\* client is blocked in the call.
C2_Witness ==
    \E c \in Clients :
        /\ pc[c] = "calling"
        /\ \E h \in handlers : h.client = c

====
